---- MODULE Spec2Model ----
(***************************************************************************)
(* check-es-logs-count: a Nagios-style probe that posts one query to       *)
(* Elasticsearch, reads hits.total and compares it with a threshold,       *)
(* racing the query goroutine against a timeout.                           *)
(*                                                                         *)
(* Two processes are modelled: main (the entry point) and the goroutine    *)
(* running getQueryResultCount.  They share the unbuffered channel c; the  *)
(* timer created by time.After and the HTTP server are the environment.    *)
(***************************************************************************)
EXTENDS Integers, Sequences, FiniteSets, TLC

\* ---------------------------------------------------------------- bounds
\* hits.total values the server may return range over -MaxCount..MaxCount.
MaxCount == 3
\* --threshold values range over -MaxThreshold..MaxThreshold.
MaxThreshold == 2

\* ------------------------------------------------------- configuration
\* --compare-operator: the two valid values and one invalid one.
Operators == {"gt", "lt", "xx"}
Thresholds == (0 - MaxThreshold)..MaxThreshold
\* --timeout in seconds: a negative one, zero, and the default.
Timeouts == {0 - 1, 0, 20}

\* ----------------------------------------------------------- severities
OK == "OK"
CRITICAL == "CRITICAL"
UNKNOWN == "UNKNOWN"

\* ------------------------------------------------------------- errors
NoErr == "nil"
ErrTemplate == "template error"
ErrTransport == "transport error"
ErrParse == "JSON parse failed"
ErrStatus(status) == CASE status = 201 -> "HTTP response code: 201 Created"
                       [] status = 500 -> "HTTP response code: 500 Internal Server Error"
                       [] OTHER -> "HTTP response code: other"

\* ------------------------------------------------- HTTP response bodies
\* A response body is one of:
\*   invalid  - text that is not JSON
\*   array    - valid JSON whose top level is not an object, e.g. []
\*   nohits   - {}                          (no "hits" member)
\*   nototal  - {"hits":{}}                 (no "total" member)
\*   null     - {"hits":{"total":null}}
\*   int      - {"hits":{"total":n}}
\*   float    - {"hits":{"total":1.5}}
\*   string   - {"hits":{"total":"5"}}
\*   object   - {"hits":{"total":{"value":5}}}
BodyKinds == {"invalid", "array", "nohits", "nototal", "null", "float", "string", "object"}
Bodies == [kind : BodyKinds, n : {0}] \cup [kind : {"int"}, n : (0 - MaxCount)..MaxCount]
NoBody == [kind |-> "none", n |-> 0]
NoResp == [transport |-> FALSE, status |-> 0, body |-> NoBody]

\* What the server (or the network) answers to the POST.
Statuses == {200, 201, 500}
Responses == [transport : {TRUE}, status : {0}, body : {NoBody}]
               \cup [transport : {FALSE}, status : Statuses, body : Bodies]

VARIABLES
    compareOperator,   \* *compareOperator
    countThreshold,    \* *countThreshold
    timeout,           \* *timeout
    mainpc,            \* position of main
    taskpc,            \* position of the getQueryResultCount goroutine
    msg,               \* the goroutine's local msg
    resp,              \* what the server answered to the POST (NoResp before that)
    data,              \* the goroutine's local data (body returned by esQueryPost)
    timer,             \* the timer behind time.After: "unset", "running", "expired"
    recv,              \* main's local msg, assigned by the receive case
    results,           \* the check.AddResult calls made so far, in order
    events             \* history: the order in which the steps below happened

vars == <<compareOperator, countThreshold, timeout, mainpc, taskpc, msg, resp,
          data, timer, recv, results, events>>

config == <<compareOperator, countThreshold, timeout>>

Msg(count, err) == [Count |-> count, Err |-> err]
Result(sev, text, count) == [sev |-> sev, text |-> text, count |-> count]

\* ------------------------------------------------------- history helpers
Count(ev) == Cardinality({i \in DOMAIN events : events[i] = ev})
Happened(ev) == Count(ev) > 0
\* index of the first occurrence of ev, 0 if none
Pos(ev) == IF Happened(ev) THEN CHOOSE i \in DOMAIN events :
                                   events[i] = ev /\ \A j \in 1..(i - 1) : events[j] # ev
           ELSE 0
Log(ev) == events' = Append(events, ev)

\* ------------------------------------------------------ pure functions
\* The package-level templateSource: a constant, well-formed template whose
\* placeholders are the two exported fields of TemplateESQuery.
templateSource == "well-formed"

\* getRenderedTemplate: Parse and Execute fail only on a malformed template.
getRenderedTemplate(tmplSrc) ==
    IF tmplSrc = "well-formed" THEN [err |-> NoErr, out |-> "rendered"]
    ELSE [err |-> ErrTemplate, out |-> ""]

\* esQueryPost after End() has returned r: transport errors first, then the
\* status check, then the body.
esQueryPostAny2xx(r) ==
    IF r.transport THEN [err |-> ErrTransport, body |-> NoBody]
    ELSE IF r.status < 200 \/ r.status > 299 THEN [err |-> ErrStatus(r.status), body |-> NoBody]
    ELSE [err |-> NoErr, body |-> r.body]
esQueryPost(r) ==
    IF r.transport THEN [err |-> ErrTransport, body |-> NoBody]
    ELSE IF r.status # 200 THEN [err |-> ErrStatus(r.status), body |-> NoBody]
    ELSE [err |-> NoErr, body |-> r.body]

\* json.Unmarshal into QueryResult: an error for text that is not JSON, for a
\* top level that is not an object and for a "total" that is not an integer
\* number; a member that is absent or null leaves the zero value in place.
parseResult(d) ==
    IF d.kind \in {"invalid", "array", "float", "string", "object"}
    THEN [err |-> ErrParse, Total |-> 0]
    ELSE IF d.kind = "int" THEN [err |-> NoErr, Total |-> d.n]
    ELSE [err |-> NoErr, Total |-> 0]

\* main, line 180 (negated): the operator is one of the two accepted values.
ValidOperatorAny(op) == TRUE
ValidOperator(op) == op = "lt" \/ op = "gt"

\* main, line 185 (negated).
ValidThreshold(th) == th # 0

\* main, line 206: the condition of the OK branch.
IsOKStrict(op, count, th) == (op = "gt" /\ count > th) \/ (op = "lt" /\ count < th)
IsOK(op, count, th) == (op = "gt" /\ count >= th) \/ (op = "lt" /\ count <= th)

\* main, line 208: the condition of the CRITICAL branch.
IsCritical(op, count, th) == (op = "gt" /\ count < th) \/ (op = "lt" /\ count > th)

\* ------------------------------------------------------------ messages
TextOperator == "compare-operator parameter should be 'lt' or 'gt'"
TextThreshold == "threshold cannot be equal to 0"
TextTimeout == "connection timeout"
TextEntries == "entries found"

AddResult(sev, text, count) == results' = Append(results, Result(sev, text, count))

\* ------------------------------------------------------------- initial
Init ==
    /\ compareOperator \in Operators
    /\ countThreshold \in Thresholds
    /\ timeout \in Timeouts
    /\ mainpc = "checkOperator"
    /\ taskpc = "idle"
    /\ msg = Msg(0, NoErr)
    /\ resp = NoResp
    /\ data = NoBody
    /\ timer = "unset"
    /\ recv = Msg(0, NoErr)
    /\ results = <<>>
    /\ events = <<>>

\* ----------------------------------------------------------------- main
\* lines 180-183
MainCheckOperator ==
    /\ mainpc = "checkOperator"
    /\ IF ~ValidOperator(compareOperator)
       THEN /\ AddResult(UNKNOWN, TextOperator, 0)
            /\ mainpc' = "finish"
       ELSE /\ mainpc' = "checkThreshold"
            /\ UNCHANGED results
    /\ UNCHANGED <<config, taskpc, msg, resp, data, timer, recv, events>>

\* lines 185-188
MainCheckThreshold ==
    /\ mainpc = "checkThreshold"
    /\ IF ~ValidThreshold(countThreshold)
       THEN /\ AddResult(UNKNOWN, TextThreshold, 0)
            /\ mainpc' = "finish"
       ELSE /\ mainpc' = "go"
            /\ UNCHANGED results
    /\ UNCHANGED <<config, taskpc, msg, resp, data, timer, recv, events>>

\* lines 190-198: make the channel and start the goroutine
MainGo ==
    /\ mainpc = "go"
    /\ mainpc' = "selectEnter"
    /\ taskpc' = "render"
    /\ Log("go")
    /\ UNCHANGED <<config, msg, resp, data, timer, recv, results>>

\* lines 202, 214: entering select evaluates time.After, which starts the
\* timer; a duration <= 0 has expired as soon as it is created.
MainSelectEnterNoTimer ==
    /\ mainpc = "selectEnter"
    /\ mainpc' = "select"
    /\ UNCHANGED <<config, taskpc, msg, resp, data, timer, recv, results, events>>
MainSelectEnter ==
    /\ mainpc = "selectEnter"
    /\ mainpc' = "select"
    /\ IF timeout <= 0
       THEN timer' = "expired" /\ Log("expire")
       ELSE timer' = "running" /\ UNCHANGED events
    /\ UNCHANGED <<config, taskpc, msg, resp, data, recv, results>>

\* the timer fires (environment)
TimerExpire ==
    /\ timer = "running"
    /\ mainpc # "exited"
    /\ timer' = "expired"
    /\ Log("expire")
    /\ UNCHANGED <<config, mainpc, taskpc, msg, resp, data, recv, results>>

\* lines 203-213: the receive case.  c is unbuffered, so the receive and the
\* goroutine's blocked send complete together, and the goroutine returns.
SelectRecv ==
    /\ mainpc = "select"
    /\ taskpc = "send"
    /\ recv' = msg
    /\ taskpc' = "done"
    /\ Log("recv")
    /\ IF msg.Err = NoErr
       THEN IF IsOK(compareOperator, msg.Count, countThreshold)
            THEN AddResult(OK, TextEntries, msg.Count)
            ELSE IF IsCritical(compareOperator, msg.Count, countThreshold)
                 THEN AddResult(CRITICAL, TextEntries, msg.Count)
                 ELSE UNCHANGED results
       ELSE AddResult(UNKNOWN, msg.Err, 0)
    /\ mainpc' = "finish"
    /\ UNCHANGED <<config, msg, resp, data, timer>>

\* lines 214-215: the timeout case
SelectTimeoutDefault ==
    /\ mainpc = "select"
    /\ Log("timeout")
    /\ AddResult(UNKNOWN, TextTimeout, 0)
    /\ mainpc' = "finish"
    /\ UNCHANGED <<config, taskpc, msg, resp, data, timer, recv>>
SelectTimeoutLoop ==
    /\ mainpc = "select"
    /\ timer = "expired"
    /\ ~Happened("timeout")
    /\ Log("timeout")
    /\ AddResult(UNKNOWN, TextTimeout, 0)
    /\ UNCHANGED <<config, mainpc, taskpc, msg, resp, data, timer, recv>>
SelectTimeout ==
    /\ mainpc = "select"
    /\ timer = "expired"
    /\ Log("timeout")
    /\ AddResult(UNKNOWN, TextTimeout, 0)
    /\ mainpc' = "finish"
    /\ UNCHANGED <<config, taskpc, msg, resp, data, timer, recv>>

\* line 178: the deferred check.Finish() prints the result and exits the
\* process, which ends the goroutine wherever it is.
Finish ==
    /\ mainpc = "finish"
    /\ mainpc' = "exited"
    /\ Log("finish")
    /\ UNCHANGED <<config, taskpc, msg, resp, data, timer, recv, results>>

\* ------------------------------------------- goroutine getQueryResultCount
Running == mainpc # "exited"

\* `c <- msg`: the goroutine blocks in the send until main receives
Send(m) ==
    /\ msg' = m
    /\ taskpc' = "send"

\* lines 130-136
TaskRender ==
    /\ Running
    /\ taskpc = "render"
    /\ LET r == getRenderedTemplate(templateSource) IN
       IF r.err # NoErr
       THEN Send(Msg(0, r.err)) /\ Log("offer")
       ELSE taskpc' = "post" /\ UNCHANGED <<msg, events>>
    /\ UNCHANGED <<config, mainpc, resp, data, timer, recv, results>>

\* lines 138-141, 113-114: build the URL and issue the POST
TaskPost ==
    /\ Running
    /\ taskpc = "post"
    /\ taskpc' = "inflight"
    /\ Log("post")
    /\ UNCHANGED <<config, mainpc, msg, resp, data, timer, recv, results>>

\* lines 114-127, 141-146: End() returns with r; esQueryPost returns
TaskHttpReturnRetry(r) ==
    /\ Running
    /\ taskpc = "inflight"
    /\ resp' = r
    /\ LET q == esQueryPost(r) IN
       IF q.err # NoErr
       THEN /\ taskpc' = "post"
            /\ Log("response")
            /\ UNCHANGED <<msg, data>>
       ELSE /\ taskpc' = "parse"
            /\ data' = q.body
            /\ Log("response")
            /\ UNCHANGED msg
    /\ UNCHANGED <<config, mainpc, timer, recv, results>>
TaskHttpReturnNoParse(r) ==
    /\ Running
    /\ taskpc = "inflight"
    /\ resp' = r
    /\ LET q == esQueryPost(r) IN
       IF q.err # NoErr
       THEN /\ Send(Msg(0, q.err))
            /\ events' = events \o <<"response", "offer">>
            /\ UNCHANGED data
       ELSE /\ Send(Msg(0, NoErr))
            /\ data' = q.body
            /\ events' = events \o <<"response", "offer">>
    /\ UNCHANGED <<config, mainpc, timer, recv, results>>
TaskHttpReturn(r) ==
    /\ Running
    /\ taskpc = "inflight"
    /\ resp' = r
    /\ LET q == esQueryPost(r) IN
       IF q.err # NoErr
       THEN /\ Send(Msg(0, q.err))
            /\ events' = events \o <<"response", "offer">>
            /\ UNCHANGED data
       ELSE /\ taskpc' = "parse"
            /\ data' = q.body
            /\ Log("response")
            /\ UNCHANGED msg
    /\ UNCHANGED <<config, mainpc, timer, recv, results>>

\* lines 148-157
TaskParse ==
    /\ Running
    /\ taskpc = "parse"
    /\ LET p == parseResult(data) IN
       IF p.err # NoErr
       THEN Send(Msg(0, p.err))
       ELSE Send(Msg(p.Total, NoErr))
    /\ events' = events \o <<"parse", "offer">>
    /\ UNCHANGED <<config, mainpc, resp, data, timer, recv, results>>

\* ----------------------------------------------------------------- next
MainStep ==
    \/ MainCheckOperator
    \/ MainCheckThreshold
    \/ MainGo
    \/ MainSelectEnter
    \/ SelectRecv
    \/ SelectTimeout
    \/ Finish

TaskStep ==
    \/ TaskRender
    \/ TaskPost
    \/ \E r \in Responses : TaskHttpReturn(r)
    \/ TaskParse

Next == MainStep \/ TaskStep \/ TimerExpire

Spec == Init /\ [][Next]_vars

\* The scheduler keeps running main, and a timer of finite duration fires.
\* Nothing is assumed of the goroutine: the POST may never return.
LiveSpec == Spec /\ WF_vars(MainStep) /\ WF_vars(TimerExpire)

TypeOK ==
    /\ compareOperator \in Operators
    /\ countThreshold \in Thresholds
    /\ timeout \in Timeouts
    /\ mainpc \in {"checkOperator", "checkThreshold", "go", "selectEnter", "select",
                   "finish", "exited"}
    /\ taskpc \in {"idle", "render", "post", "inflight", "parse", "send", "done"}
    /\ timer \in {"unset", "running", "expired"}
    /\ resp \in Responses \cup {NoResp}
    /\ data \in Bodies \cup {NoBody}
    /\ \A i \in DOMAIN results : results[i].sev \in {OK, CRITICAL, UNKNOWN}

\* ================================================================ claims
Finished == mainpc \in {"finish", "exited"}
ConfigValid == compareOperator \in {"lt", "gt"} /\ countThreshold # 0
TimeoutResult == Result(UNKNOWN, TextTimeout, 0)

\* C1: when main receives an Outcome Message without error, the verdict is OK
\* exactly when (gt and count >= threshold) or (lt and count <= threshold),
\* and CRITICAL otherwise; count = threshold is OK for both operators.
ThresholdVerdict ==
    (Happened("recv") /\ recv.Err = NoErr) =>
        /\ Len(results) = 1
        /\ results[1].count = recv.Count
        /\ results[1].sev = OK <=>
              \/ compareOperator = "gt" /\ recv.Count >= countThreshold
              \/ compareOperator = "lt" /\ recv.Count <= countThreshold
        /\ results[1].sev # OK => results[1].sev = CRITICAL
        /\ recv.Count = countThreshold => results[1].sev = OK

ThresholdVerdictWitness ==
    /\ Happened("recv") /\ recv.Err = NoErr
    /\ compareOperator = "lt"
    /\ countThreshold < 0
    /\ recv.Count = countThreshold
    /\ Len(results) = 1 /\ results[1].sev = OK

\* C2: with an operator other than lt/gt, or a threshold of 0, the goroutine
\* is never started, no HTTP request is issued, and the verdict is UNKNOWN.
InvalidConfigNoQuery ==
    ~ConfigValid =>
        /\ taskpc = "idle"
        /\ ~Happened("go")
        /\ ~Happened("post")
        /\ timer = "unset"
        /\ Finished =>
              /\ Len(results) = 1
              /\ results[1].sev = UNKNOWN
              /\ results[1].text \in {TextOperator, TextThreshold}

InvalidConfigNoQueryWitness ==
    /\ mainpc = "exited"
    /\ compareOperator = "gt"
    /\ countThreshold = 0
    /\ results = <<Result(UNKNOWN, TextThreshold, 0)>>

\* C3 (as claimed): whichever of {Outcome Message offered, timer expired}
\* happens first is the one main reports; in particular a timer that expires
\* before the message is offered always gives "connection timeout".
FirstReady ==
    IF ~Happened("offer") /\ ~Happened("expire") THEN "none"
    ELSE IF ~Happened("expire") THEN "msg"
    ELSE IF ~Happened("offer") THEN "timeout"
    ELSE IF Pos("offer") < Pos("expire") THEN "msg" ELSE "timeout"

ReportsWhicheverFirst ==
    /\ Happened("timeout") => FirstReady = "timeout"
    /\ Happened("recv") => FirstReady = "msg"

\* C3 (amended): main reports the timeout only after the timer has expired
\* and the Outcome Message only after the goroutine has offered it; if the
\* message has not been offered by the time the select chooses, the verdict
\* is UNKNOWN "connection timeout", whatever the pipeline does later.
SelectReportsReady ==
    /\ Happened("timeout") =>
          /\ Happened("expire") /\ Pos("expire") < Pos("timeout")
          /\ results = <<TimeoutResult>>
    /\ Happened("recv") =>
          /\ Happened("offer") /\ Pos("offer") < Pos("recv")
          /\ recv = msg
          /\ Len(results) = 1 /\ results[1].text # TextTimeout
    /\ (Finished /\ Happened("go") /\ ~Happened("recv")) => results = <<TimeoutResult>>

SelectReportsReadyWitness ==
    /\ Happened("timeout")
    /\ taskpc = "send" /\ msg.Err = NoErr
    /\ Pos("expire") < Pos("timeout") /\ Pos("timeout") < Pos("offer")
    /\ results = <<TimeoutResult>>

\* C4: at most one HTTP request is issued, at most one Outcome Message is
\* produced, and main consumes at most one of {Outcome Message, timeout}.
AtMostOnce ==
    /\ Count("post") <= 1
    /\ Count("response") <= 1
    /\ Count("offer") <= 1
    /\ Count("recv") + Count("timeout") <= 1

AtMostOnceWitness ==
    /\ Count("post") = 1
    /\ Count("offer") = 1
    /\ Count("recv") + Count("timeout") = 1
    /\ mainpc = "exited"

\* C5: every failure kind ends in the verdict UNKNOWN with exactly one result
\* added, no second request, and main going straight to finish.
FailOperator == compareOperator \notin {"lt", "gt"}
FailThreshold == ~FailOperator /\ countThreshold = 0
FailTemplate == Happened("offer") /\ ~Happened("post")
FailTransport == Happened("response") /\ resp.transport
FailStatus == Happened("response") /\ ~resp.transport /\ resp.status # 200
FailParse == Happened("parse") /\ data.kind \in {"invalid", "array", "float", "string", "object"}
FailTimeout == Happened("timeout")
AnyFailure ==
    FailOperator \/ FailThreshold \/ FailTemplate \/ FailTransport \/ FailStatus
        \/ FailParse \/ FailTimeout

FailuresAreUnknown ==
    /\ (Finished /\ AnyFailure) =>
          /\ Len(results) = 1
          /\ results[1].sev = UNKNOWN
          /\ Count("post") <= 1
          /\ FailOperator => results[1].text = TextOperator
          /\ FailThreshold => results[1].text = TextThreshold
          /\ FailTimeout => results[1].text = TextTimeout
          /\ (Happened("recv") /\ FailParse) => results[1].text = ErrParse
          /\ (Happened("recv") /\ FailTransport) => results[1].text = ErrTransport
          /\ (Happened("recv") /\ FailStatus) => results[1].text = ErrStatus(resp.status)
    /\ Len(results) >= 1 => Finished

FailuresAreUnknownWitness ==
    /\ mainpc = "exited"
    /\ FailStatus /\ resp.status = 201
    /\ Happened("recv")
    /\ results = <<Result(UNKNOWN, ErrStatus(201), 0)>>

\* C6 (as claimed): parseResult fails with "JSON parse failed" whenever the
\* body is not valid JSON or hits.total is absent or non-numeric, so a 200
\* response without hits.total never gives a count-based verdict.
ParseFailsWithoutTotal ==
    (Happened("parse") /\ data.kind # "int") =>
        /\ msg.Err = ErrParse
        /\ \A i \in DOMAIN results : results[i].sev = UNKNOWN

\* C7 (as claimed): a delivered Outcome Message is delivered exactly once and
\* after the HTTP call and the JSON parse have completed, on every path.
DeliveredAfterHttpAndParse ==
    Happened("recv") =>
        /\ Count("recv") = 1
        /\ Happened("response") /\ Pos("response") < Pos("recv")
        /\ Happened("parse") /\ Pos("parse") < Pos("recv")

\* C7 (amended): a delivered Outcome Message is delivered exactly once, after
\* the goroutine has completed every step it ran: after the HTTP call and the
\* JSON parse when esQueryPost succeeded, after the HTTP call alone (nothing
\* is parsed) when esQueryPost failed, and with no HTTP call at all when the
\* template failed to render.
DeliveredAfterStepsRun ==
    Happened("recv") =>
        /\ Count("recv") = 1 /\ Count("offer") = 1
        /\ taskpc = "done"
        /\ Pos("offer") < Pos("recv")
        /\ recv.Err \in {NoErr, ErrParse} =>
              /\ 0 < Pos("post") /\ Pos("post") < Pos("response")
              /\ Pos("response") < Pos("parse") /\ Pos("parse") < Pos("offer")
        /\ recv.Err \in {ErrTransport} \cup {ErrStatus(st) : st \in Statuses} =>
              /\ 0 < Pos("post") /\ Pos("post") < Pos("response")
              /\ Pos("response") < Pos("offer")
              /\ ~Happened("parse")
        /\ recv.Err = ErrTemplate => ~Happened("post") /\ ~Happened("parse")

DeliveredAfterStepsRunWitness ==
    /\ Happened("recv")
    /\ recv.Err = ErrStatus(500)
    /\ Happened("response") /\ ~Happened("parse")
    /\ taskpc = "done"

\* C8 (as claimed): OK or CRITICAL is reported only when validation passed,
\* exactly one request was issued, its status was 200, its body parsed, main
\* received the message rather than the timeout, and the count compared is
\* the hits.total of that response.
VerdictFromHitsTotal ==
    (Len(results) >= 1 /\ results[1].sev \in {OK, CRITICAL}) =>
        /\ ConfigValid
        /\ Count("post") = 1
        /\ ~resp.transport /\ resp.status = 200
        /\ Happened("parse")
        /\ Happened("recv") /\ ~Happened("timeout")
        /\ resp.body.kind = "int"
        /\ results[1].count = resp.body.n

\* C9: every invocation finishes with exactly one result, of severity OK,
\* CRITICAL or UNKNOWN, even when the POST never returns; on the success path
\* exactly one of the OK / CRITICAL branches adds it.
FinishesWithOneResult ==
    /\ <>(mainpc = "exited")
    /\ [](Finished =>
            /\ Len(results) = 1
            /\ results[1].sev \in {OK, CRITICAL, UNKNOWN})
    /\ []((Happened("recv") /\ recv.Err = NoErr) =>
            /\ Len(results) = 1
            /\ results[1].sev \in {OK, CRITICAL})

FinishesWithOneResultWitness ==
    /\ mainpc = "exited"
    /\ taskpc = "inflight"
    /\ results = <<TimeoutResult>>
    /\ timeout > 0

\* C10: once main has taken the timeout branch the Outcome Message is never
\* received: the goroutine stays blocked in its send instead of returning, and
\* the "connection timeout" result is neither changed nor followed by another.
AbandonedAfterTimeout ==
    Happened("timeout") =>
        /\ ~Happened("recv")
        /\ recv = Msg(0, NoErr)
        /\ taskpc # "done"
        /\ Happened("offer") => taskpc = "send"
        /\ results = <<TimeoutResult>>

AbandonedAfterTimeoutWitness ==
    /\ Happened("timeout")
    /\ Happened("offer") /\ Pos("offer") < Pos("expire")
    /\ taskpc = "send"
    /\ mainpc = "exited"

====
